---- MODULE Spec2Model ----
(***************************************************************************)
(* Model of src/src/get_SNP_list.py (IMMerge, step 01): the per-cohort     *)
(* .info.gz tables are outer-merged on (SNP, REF(0), ALT(1), Genotyped),   *)
(* r2 / MAF / ALT_Frq are combined, and every merged variant is written to *)
(* variants_kept_*.txt or variants_excluded_*.txt; index.txt carries the   *)
(* per-cohort row positions of the kept variants.                          *)
(*                                                                         *)
(* A DataFrame is a sequence of row records; row j of a frame produced by  *)
(* merge() has index label j-1 (RangeIndex).  Floating point values are    *)
(* exact rationals <<num, den>> with den > 0, compared by FEq; NaN is      *)
(* <<0, 0>>; rounding of IEEE doubles is not modelled.  merge(how='outer') orders its result  *)
(* by first appearance of the join key (left frame, then right frame), as  *)
(* pandas 1.x does for sort=False.                                         *)
(***************************************************************************)
EXTENDS Integers, Sequences, FiniteSets, TLC

\* ---------------------------------------------------------------- bounds
MaxCohorts == 3
MaxRows == 2
MaxSamples == 2
MaxMissing == 1

\* ---------------------------------------------------------------- floats
NaN == <<0, 0>>

\* the float n/d, d >= 0; 0/0 is NaN (no non-zero value is divided by zero here)
Frac(n, d) == IF d = 0 THEN NaN ELSE <<n, d>>

isna(x) == x = NaN
notna(x) == x # NaN

\* float * float, NaN propagates
FMul(x, y) == IF isna(x) \/ isna(y) THEN NaN ELSE Frac(x[1] * y[1], x[2] * y[2])
\* float / float
FDiv(x, y) == IF isna(x) \/ isna(y) THEN NaN ELSE Frac(x[1] * y[2], x[2] * y[1])
FAdd(x, y) == IF isna(x) \/ isna(y) THEN NaN ELSE Frac(x[1] * y[2] + y[1] * x[2], x[2] * y[2])
\* comparisons with NaN are False
FEq(x, y) == notna(x) /\ notna(y) /\ x[1] * y[2] = y[1] * x[2]
FGe(x, y) == notna(x) /\ notna(y) /\ x[1] * y[2] >= y[1] * x[2]
FLt(x, y) == notna(x) /\ notna(y) /\ x[1] * y[2] < y[1] * x[2]

\* DataFrame.sum(axis=1): NaN cells are skipped, an all-NaN row sums to 0
RECURSIVE RowSum(_)
RowSum(s) == IF s = <<>> THEN Frac(0, 1)
             ELSE IF isna(Head(s)) THEN RowSum(Tail(s))
             ELSE FAdd(Head(s), RowSum(Tail(s)))

\* number of non-NaN cells of a row
RECURSIVE CountNotNa(_)
CountNotNa(s) == IF s = <<>> THEN 0
                 ELSE (IF notna(Head(s)) THEN 1 ELSE 0) + CountNotNa(Tail(s))

\* DataFrame.mean(axis=1): mean of the non-NaN cells, NaN if there is none
RowMean(s) == FDiv(RowSum(s), Frac(CountNotNa(s), 1))

\* pd.to_numeric(errors='coerce') on the text of a cell
to_numeric(s) == CASE s = "0.0" -> Frac(0, 1)
                   [] s = "0.2" -> Frac(1, 5)
                   [] s = "0.4" -> Frac(2, 5)
                   [] s = "0.6" -> Frac(3, 5)
                   [] s = "0.8" -> Frac(4, 5)
                   [] OTHER -> NaN

\* ---------------------------------------------------------------- inputs
\* missing cell of a text column
NA == "nan"

\* (SNP, REF(0), ALT(1), Genotyped): one variant id, imputed or genotyped
Keys == { <<"rs1", "A", "G", "Imputed">>,
          <<"rs1", "A", "G", "Genotyped">> }

\* (ALT_Frq, MAF, Rsq) as text of a .info.gz row; "-" does not parse
Measures == { <<"0.8", "0.2", "0.8">>, <<"0.4", "0.4", "0.0">>, <<"-", "-", "-">> }

KeyOf(r) == <<r.SNP, r.REF0, r.ALT1, r.Genotyped>>

InfoRow(k, m) == [SNP |-> k[1], REF0 |-> k[2], ALT1 |-> k[3], Genotyped |-> k[4],
                  ALT_Frq |-> m[1], MAF |-> m[2], Rsq |-> m[3]]

InfoRows == {InfoRow(k, m) : k \in Keys, m \in Measures}

\* the tables __get_lst_info_df can return: up to MaxRows rows each
InfoTables == UNION { [1..n -> InfoRows] : n \in 0..MaxRows }

\* rows over all tables of a run: one more than there are identity keys
MaxTotalRows == Cardinality(Keys) + 1

\* the lists of N tables of at most budget rows in all
RECURSIVE TableLists(_, _)
TableLists(N, budget) ==
    IF N = 0 THEN {<<>>}
    ELSE UNION { {<<t>> \o rest : rest \in TableLists(N - 1, budget - Len(t))} :
                 t \in {u \in InfoTables : Len(u) <= budget} }

\* ---------------------------------------------------------------- merge
\* df.reset_index()[cols_to_keep], with the per-group columns already in the
\* suffixed form they have after the merge
Lift(df) == [j \in 1..Len(df) |->
               [SNP |-> df[j].SNP, REF0 |-> df[j].REF0, ALT1 |-> df[j].ALT1,
                Genotyped |-> df[j].Genotyped,
                index_group |-> <<Frac(j - 1, 1)>>,
                ALT_Frq_group |-> <<df[j].ALT_Frq>>,
                MAF_group |-> <<df[j].MAF>>,
                Rsq_group |-> <<df[j].Rsq>>]]

\* a row of the left frame with no partner in the right frame
LeftOnly(l) == [l EXCEPT !.index_group = Append(@, NaN),
                         !.ALT_Frq_group = Append(@, NA),
                         !.MAF_group = Append(@, NA),
                         !.Rsq_group = Append(@, NA)]

\* RightOnly with a fault: the missing cells are put after the group's own cells
RightOnly_appended(r, g) == [r EXCEPT !.index_group = @ \o [c \in 1..g |-> NaN],
                                     !.ALT_Frq_group = @ \o [c \in 1..g |-> NA],
                                     !.MAF_group = @ \o [c \in 1..g |-> NA],
                                     !.Rsq_group = @ \o [c \in 1..g |-> NA]]

\* a row of the right frame with no partner in the left frame of g groups
RightOnly(r, g) == [r EXCEPT !.index_group = [c \in 1..g |-> NaN] \o @,
                            !.ALT_Frq_group = [c \in 1..g |-> NA] \o @,
                            !.MAF_group = [c \in 1..g |-> NA] \o @,
                            !.Rsq_group = [c \in 1..g |-> NA] \o @]

Both(l, r) == [l EXCEPT !.index_group = @ \o r.index_group,
                        !.ALT_Frq_group = @ \o r.ALT_Frq_group,
                        !.MAF_group = @ \o r.MAF_group,
                        !.Rsq_group = @ \o r.Rsq_group]

\* join keys in order of first appearance
RECURSIVE KeyOrder(_, _)
KeyOrder(rows, seen) ==
    IF rows = <<>> THEN <<>>
    ELSE IF KeyOf(Head(rows)) \in seen THEN KeyOrder(Tail(rows), seen)
    ELSE <<KeyOf(Head(rows))>> \o KeyOrder(Tail(rows), seen \cup {KeyOf(Head(rows))})

WithKey(rows, k) == SelectSeq(rows, LAMBDA r : KeyOf(r) = k)

\* every row of ls paired with every row of rs, left-major
RECURSIVE Cross(_, _)
Cross(ls, rs) ==
    IF ls = <<>> THEN <<>>
    ELSE [j \in 1..Len(rs) |-> Both(Head(ls), rs[j])] \o Cross(Tail(ls), rs)

\* the rows merge() emits for one join key
KeyRows(left, right, g, k) ==
    LET ls == WithKey(left, k)
        rs == WithKey(right, k)
    IN  IF rs = <<>> THEN [j \in 1..Len(ls) |-> LeftOnly(ls[j])]
        ELSE IF ls = <<>> THEN [j \in 1..Len(rs) |-> RightOnly(rs[j], g)]
        ELSE Cross(ls, rs)

RECURSIVE ConcatKeyRows(_, _, _, _)
ConcatKeyRows(left, right, g, ks) ==
    IF ks = <<>> THEN <<>>
    ELSE KeyRows(left, right, g, Head(ks)) \o ConcatKeyRows(left, right, g, Tail(ks))

\* left.merge(right, how='outer', on=[SNP, REF(0), ALT(1), Genotyped]);
\* left carries g groups, right is one lifted cohort table
OuterMerge(left, right, g) ==
    ConcatKeyRows(left, right, g, KeyOrder(left \o right, {}))

\* the while loop of __merge_snps from iteration i on
RECURSIVE MergeFrom(_, _, _)
MergeFrom(lst, df, i) ==
    IF i >= Len(lst) THEN df
    ELSE MergeFrom(lst, OuterMerge(df, Lift(lst[i + 1]), i), i + 1)

\* __merge_snps: the first iteration merges tables 1 and 2
merge_snps(lst) == MergeFrom(lst, OuterMerge(Lift(lst[1]), Lift(lst[2]), 1), 2)

\* lst_info_df[i+1] with i = 0 raises IndexError when there is one table
merge_raises(lst) == Len(lst) < 2

\* ---------------------------------------------------------------- __process_output
\* the value column c holds at row j after fillna(method='ffill')
RECURSIVE ffill(_, _, _)
ffill(df, c, j) == IF j = 0 THEN NaN
                   ELSE IF notna(df[j].index_group[c]) THEN df[j].index_group[c]
                   ELSE ffill(df, c, j - 1)

\* line 171: df_merged[lst_index_cols].fillna(method='ffill').sum(axis=1)
sum_index_NA_ffilled(df, j) ==
    RowSum([c \in 1..Len(df[j].index_group) |-> ffill(df, c, j)])

\* line 172 binds the sorted copy to the attribute df_merged.sort_values and
\* leaves the rows of df_merged where they are
sort_values(df) == df

\* lines 179-181: the text columns become numbers
Numeric(r) == [r EXCEPT !.Rsq_group = [c \in DOMAIN @ |-> to_numeric(@[c])],
                        !.MAF_group = [c \in DOMAIN @ |-> to_numeric(@[c])],
                        !.ALT_Frq_group = [c \in DOMAIN @ |-> to_numeric(@[c])]]

\* mask_to_keep with a fault: each iteration overwrites the mask of the one before
mask_to_keep_overwritten(r, thr, i) ==
    IF ~ FEq(thr, Frac(0, 1)) THEN notna(r.Rsq_group[i]) /\ FGe(r.Rsq_group[i], thr)
    ELSE notna(r.Rsq_group[i])

\* lines 186-196: mask_to_keep of a row after iteration i (1-based)
RECURSIVE mask_to_keep(_, _, _)
mask_to_keep(r, thr, i) ==
    LET m == IF i = 1 THEN notna(r.Rsq_group[1])
             ELSE mask_to_keep(r, thr, i - 1) /\ notna(r.Rsq_group[i])
    IN  IF ~ FEq(thr, Frac(0, 1)) THEN m /\ FGe(r.Rsq_group[i], thr) ELSE m

\* mask_to_exclude with a fault: the per-cohort masks are and-ed, as for keep
RECURSIVE mask_to_exclude_anded(_, _, _)
mask_to_exclude_anded(r, thr, i) ==
    LET m == IF i = 1 THEN isna(r.Rsq_group[1])
             ELSE mask_to_exclude_anded(r, thr, i - 1) /\ isna(r.Rsq_group[i])
    IN  IF ~ FEq(thr, Frac(0, 1)) THEN m \/ FLt(r.Rsq_group[i], thr) ELSE m

\* lines 186-196: mask_to_exclude of a row after iteration i (1-based)
RECURSIVE mask_to_exclude(_, _, _)
mask_to_exclude(r, thr, i) ==
    LET m == IF i = 1 THEN isna(r.Rsq_group[1])
             ELSE mask_to_exclude(r, thr, i - 1) \/ isna(r.Rsq_group[i])
    IN  IF ~ FEq(thr, Frac(0, 1)) THEN m \/ FLt(r.Rsq_group[i], thr) ELSE m

\* dropna_keeps with a fault: more than thresh non-NA values are required
dropna_keeps_strict(r, thresh) == CountNotNa(r.Rsq_group) > thresh

\* lines 235-236: dropna(thresh=N - missing) keeps rows with that many non-NA r2
dropna_keeps(r, thresh) == CountNotNa(r.Rsq_group) >= thresh

\* lines 116-128: the three weighted columns of one row
weighted_r2(r, n) ==
    LET N == Len(n)
        r2_adj == [c \in 1..N |-> FMul(r.Rsq_group[c], Frac(n[c], 1))]
        weight_adj == [c \in 1..N |->
                         FDiv(FMul(Frac(n[c], 1), r.Rsq_group[c]), r.Rsq_group[c])]
    IN  FDiv(RowSum(r2_adj), RowSum(weight_adj))

RECURSIVE SumInts(_)
SumInts(n) == IF n = <<>> THEN 0 ELSE Head(n) + SumInts(Tail(n))

\* weighted_maf with a fault: the ALT_Frq columns are summed in place of MAF
weighted_maf_from_alt(r, n) ==
    FDiv(RowSum([c \in 1..Len(n) |-> FMul(r.ALT_Frq_group[c], Frac(n[c], 1))]),
         Frac(SumInts(n), 1))

weighted_maf(r, n) ==
    FDiv(RowSum([c \in 1..Len(n) |-> FMul(r.MAF_group[c], Frac(n[c], 1))]),
         Frac(SumInts(n), 1))

weighted_alt_frq(r, n) ==
    FDiv(RowSum([c \in 1..Len(n) |-> FMul(r.ALT_Frq_group[c], Frac(n[c], 1))]),
         Frac(SumInts(n), 1))

\* Combine with a fault: 'first' takes the mean of the cohorts' r2
Combine_first_is_mean(r, mode, n) ==
    IF mode = "weighted_average"
    THEN r @@ [ALT_Frq_combined |-> weighted_alt_frq(r, n),
               MAF_combined |-> weighted_maf(r, n),
               Rsq_combined |-> weighted_r2(r, n)]
    ELSE r @@ [Rsq_combined |-> RowMean(r.Rsq_group)]

\* lines 205-212: the combined columns added to a row
Combine(r, mode, n) ==
    IF mode = "first" THEN r @@ [Rsq_combined |-> r.Rsq_group[1]]
    ELSE IF mode = "weighted_average"
    THEN r @@ [ALT_Frq_combined |-> weighted_alt_frq(r, n),
               MAF_combined |-> weighted_maf(r, n),
               Rsq_combined |-> weighted_r2(r, n)]
    ELSE r @@ [Rsq_combined |-> RowMean(r.Rsq_group)]

\* df_merged as it is when the output files are written (lines 171-212),
\* rows j..Len(df)
RECURSIVE EnrichedFrom(_, _, _, _)
EnrichedFrom(df, j, mode, n) ==
    IF j > Len(df) THEN <<>>
    ELSE <<Combine(Numeric(df[j]) @@ [sum_index_NA_ffilled |-> sum_index_NA_ffilled(df, j)],
                   mode, n)>>
         \o EnrichedFrom(df, j + 1, mode, n)

Enriched(df, mode, n) == EnrichedFrom(df, 1, mode, n)

\* ascending positions of the rows whose cell of the boolean mask is TRUE
Positions(mask) == SelectSeq([j \in 1..Len(mask) |-> j], LAMBDA j : mask[j])

\* the frame df.drop(columns=lst_index_cols) restricted to the rows at ps, as
\* handed to to_csv: recorded by the index labels of its rows, whose cells are
\* those of df_merged without the index_groupX columns
Labelled(df, ps) == [q \in 1..Len(ps) |-> ps[q] - 1]

\* df_merged[['SNP'] + lst_index_cols] restricted to the rows at ps
IndexFrame(df, ps) ==
    [q \in 1..Len(ps) |->
        [label |-> ps[q] - 1,
         row |-> [f \in {"SNP", "index_group"} |-> df[ps[q]][f]]]]

\* rows selected for the kept file (lines 228, 235-238)
KeepPositions(df, flags) ==
    IF flags.missing = 0
    THEN Positions([j \in 1..Len(df) |->
                      mask_to_keep(df[j], flags.r2_threshold, flags.input)])
    ELSE Positions([j \in 1..Len(df) |->
                      dropna_keeps(df[j], flags.input - flags.missing)])

\* rows selected for the excluded file (lines 229, 239)
ExcludePositions(df, flags) ==
    IF flags.missing = 0
    THEN Positions([j \in 1..Len(df) |->
                      mask_to_exclude(df[j], flags.r2_threshold, flags.input)])
    ELSE Positions([j \in 1..Len(df) |->
                      ~ dropna_keeps(df[j], flags.input - flags.missing)])

\* ---------------------------------------------------------------- state machine
VARIABLES lst_info_df, dict_flags, pc, df_merged, lst_number_of_individuals,
          to_keep, to_exclude, df_index_variant_kept

vars == <<lst_info_df, dict_flags, pc, df_merged, lst_number_of_individuals,
          to_keep, to_exclude, df_index_variant_kept>>

Thresholds == {Frac(0, 1), Frac(1, 2)}
Modes == {"first", "weighted_average", "mean"}

\* the options __process_output reads from dict_flags besides --input
Flags(N) == [input : {N}, missing : 0..MaxMissing, r2_threshold : Thresholds,
             r2_output : Modes]

\* the sample counts read from the headers of the N .dose.vcf.gz files:
\* 1..MaxSamples individuals per file, cyclically from file to file
SampleCounts(N) == {[c \in 1..N |-> 1 + ((c + k) % MaxSamples)] : k \in 1..MaxSamples}

Init ==
    /\ \E N \in 1..MaxCohorts :
          /\ lst_info_df \in TableLists(N, MaxTotalRows)
          /\ dict_flags = [input |-> N]
    /\ pc = "merge_snps"
    /\ df_merged = <<>>
    /\ lst_number_of_individuals = <<>>
    /\ to_keep = <<>>
    /\ to_exclude = <<>>
    /\ df_index_variant_kept = <<>>

\* get_snp_list line 254
MergeSnps ==
    /\ pc = "merge_snps"
    /\ IF merge_raises(lst_info_df)
       THEN /\ pc' = "IndexError"
            /\ UNCHANGED df_merged
       ELSE /\ pc' = "process_output"
            /\ df_merged' = merge_snps(lst_info_df)
    /\ UNCHANGED <<lst_info_df, dict_flags, lst_number_of_individuals,
                   to_keep, to_exclude, df_index_variant_kept>>

\* get_snp_list lines 257-258 with the options flags; the sample counts n are
\* read (line 208) only in weighted_average mode
ProcessOutput ==
    /\ pc = "process_output"
    /\ \E flags \in Flags(dict_flags.input) :
          /\ dict_flags' = flags
          /\ \E n \in IF flags.r2_output = "weighted_average"
                       THEN SampleCounts(flags.input) ELSE {<<>>} :
                /\ lst_number_of_individuals' = n
                /\ df_merged' = Enriched(sort_values(df_merged), flags.r2_output, n)
          /\ to_keep' = Labelled(df_merged', KeepPositions(df_merged', flags))
          /\ to_exclude' = Labelled(df_merged', ExcludePositions(df_merged', flags))
          /\ df_index_variant_kept' = IndexFrame(df_merged', KeepPositions(df_merged', flags))
    /\ pc' = "done"
    /\ UNCHANGED lst_info_df

Next == MergeSnps \/ ProcessOutput

Spec == Init /\ [][Next]_vars

\* ---------------------------------------------------------------- properties
Done == pc = "done"
N_cohorts == Len(lst_info_df)

UniqueKeys(df) == \A a, b \in 1..Len(df) : KeyOf(df[a]) = KeyOf(df[b]) => a = b
KeysIn(df) == {KeyOf(df[j]) : j \in 1..Len(df)}
UnionOfKeys == UNION {KeysIn(lst_info_df[c]) : c \in 1..N_cohorts}

Labels(frame) == {frame[q] : q \in 1..Len(frame)}
Written(frame, j) == (j - 1) \in Labels(frame)

\* the row of cohort c from which row r of the merged table takes its group-c
\* cells; defined when the position cell is not missing
Source(r, c) == lst_info_df[c][r.index_group[c][1] + 1]
Observed(r, c) == notna(r.index_group[c])
SourceRsq(r, c) == IF Observed(r, c) THEN to_numeric(Source(r, c).Rsq) ELSE NaN
SourceMAF(r, c) == IF Observed(r, c) THEN to_numeric(Source(r, c).MAF) ELSE NaN
SourceALT(r, c) == IF Observed(r, c) THEN to_numeric(Source(r, c).ALT_Frq) ELSE NaN
Present(r) == {c \in 1..N_cohorts : notna(SourceRsq(r, c))}

\* both missing, or the same number
SameFloat(x, y) == (isna(x) /\ isna(y)) \/ FEq(x, y)

\* sum of v[c] * n[c] over the cohorts in S, as an exact rational
RECURSIVE WeightedSum(_, _, _)
WeightedSum(v, n, S) ==
    IF S = {} THEN Frac(0, 1)
    ELSE LET c == CHOOSE x \in S : TRUE
         IN  FAdd(FMul(v[c], Frac(n[c], 1)), WeightedSum(v, n, S \ {c}))

RECURSIVE SumOver(_, _)
SumOver(n, S) == IF S = {} THEN 0
                 ELSE LET c == CHOOSE x \in S : TRUE IN n[c] + SumOver(n, S \ {c})

\* C1: for any N >= 1 tables with unique identity keys, __merge_snps ends
\* normally and the merged table has exactly one row per key of the union of
\* the tables' key sets and no other row.
C1_MergeIsUnionForAnyN ==
    (pc # "merge_snps" /\ \A c \in 1..N_cohorts : UniqueKeys(lst_info_df[c]))
    => /\ pc # "IndexError"
       /\ KeysIn(df_merged) = UnionOfKeys
       /\ Len(df_merged) = Cardinality(UnionOfKeys)

\* C2: for every --missing and --r2_threshold, every row of the merged table
\* is written to exactly one of the kept file and the excluded file.
C2_KeptExcludedPartition ==
    Done => /\ Labels(to_keep) \cap Labels(to_exclude) = {}
            /\ Labels(to_keep) \cup Labels(to_exclude) = {j - 1 : j \in 1..Len(df_merged)}
            /\ Len(to_keep) + Len(to_exclude) = Len(df_merged)

C2_Witness ==
    /\ Done
    /\ to_keep # <<>> /\ to_exclude # <<>>
    /\ dict_flags.missing = 0 /\ dict_flags.r2_threshold # Frac(0, 1)
    /\ \E j \in 1..Len(df_merged) :
          /\ Written(to_exclude, j)
          /\ Present(df_merged[j]) = 1..N_cohorts

\* C3: in weighted_average mode Rsq_combined of every variant is the sum of
\* r2_i * n_i over the cohorts whose r2 is not absent (an r2 of 0 included)
\* divided by the sum of n_i over those cohorts, and missing when no cohort
\* has an r2.
C3_WeightedR2OverPresent ==
    (Done /\ dict_flags.r2_output = "weighted_average")
    => \A j \in 1..Len(df_merged) :
         LET r == df_merged[j]
             v == [c \in 1..N_cohorts |-> SourceRsq(r, c)]
         IN  SameFloat(r.Rsq_combined,
                       FDiv(WeightedSum(v, lst_number_of_individuals, Present(r)),
                            Frac(SumOver(lst_number_of_individuals, Present(r)), 1)))

FLe(x, y) == notna(x) /\ notna(y) /\ x[1] * y[2] <= y[1] * x[2]

\* the rows of a written frame are in ascending order of sum_index_NA_ffilled
Ascending(frame) ==
    \A a, b \in 1..Len(frame) :
        a < b => FLe(df_merged[frame[a] + 1].sum_index_NA_ffilled,
                     df_merged[frame[b] + 1].sum_index_NA_ffilled)

\* C4: the rows of the kept file and of the excluded file are in ascending
\* order of the sum over the cohorts of the forward-filled row positions.
C4_OutputSortedBySumIndex ==
    Done => Ascending(to_keep) /\ Ascending(to_exclude)

\* the keep rule of --missing 0 for row r
KeepRule0(r, thr) ==
    /\ Present(r) = 1..N_cohorts
    /\ thr # Frac(0, 1) => \A c \in 1..N_cohorts : FGe(SourceRsq(r, c), thr)

\* C5: with --missing 0 a variant is in the kept file iff its r2 is present in
\* every cohort and, for a non-zero threshold, every cohort's r2 reaches it;
\* otherwise it is in the excluded file; a variant absent from a cohort is
\* excluded.
C5_Missing0KeepRule ==
    (Done /\ dict_flags.missing = 0)
    => \A j \in 1..Len(df_merged) :
         /\ Written(to_keep, j) <=> KeepRule0(df_merged[j], dict_flags.r2_threshold)
         /\ Written(to_exclude, j) <=> ~ KeepRule0(df_merged[j], dict_flags.r2_threshold)
         /\ (\E c \in 1..N_cohorts : ~ Observed(df_merged[j], c))
              => Written(to_exclude, j) /\ ~ Written(to_keep, j)

C5_Witness ==
    /\ Done /\ dict_flags.missing = 0 /\ dict_flags.r2_threshold # Frac(0, 1)
    /\ \E j, k \in 1..Len(df_merged) :
          /\ Written(to_keep, j)
          /\ Written(to_exclude, k)
          /\ \A c \in 1..N_cohorts : Observed(df_merged[k], c)
          /\ Present(df_merged[k]) = 1..N_cohorts

\* C6: with --missing m > 0 a variant is in the kept file iff its r2 is present
\* in at least N - m cohorts, whatever --r2_threshold is; otherwise it is in
\* the excluded file.
C6_MissingAllowedKeepRule ==
    (Done /\ dict_flags.missing > 0)
    => \A j \in 1..Len(df_merged) :
         LET enough == Cardinality(Present(df_merged[j])) >= N_cohorts - dict_flags.missing
         IN  /\ Written(to_keep, j) <=> enough
             /\ Written(to_exclude, j) <=> ~ enough

C6_Witness ==
    /\ Done /\ dict_flags.missing = 1 /\ N_cohorts = 3
    /\ dict_flags.r2_threshold # Frac(0, 1)
    /\ \E j, k \in 1..Len(df_merged) :
          /\ Cardinality(Present(df_merged[j])) = 2
          /\ \A c \in Present(df_merged[j]) :
                FLt(SourceRsq(df_merged[j], c), dict_flags.r2_threshold)
          /\ Written(to_keep, j)
          /\ Cardinality(Present(df_merged[k])) = 1
          /\ Written(to_exclude, k)

\* C7: when a cohort table holds an identity key in more than one row the
\* pipeline fails fast: no merged table is produced and nothing is written.
C7_DuplicateKeyFailsFast ==
    (\E c \in 1..N_cohorts : ~ UniqueKeys(lst_info_df[c]))
    => pc \notin {"process_output", "done"}

\* the index frame has one row per kept row, in the same order
IndexRowsAreKeptRows ==
    /\ Len(df_index_variant_kept) = Len(to_keep)
    /\ \A q \in 1..Len(to_keep) : df_index_variant_kept[q].label = to_keep[q]

\* the position cells of index row x are the positions of the variant of
\* merged row r in the cohort tables, missing where the cohort lacks it
PositionsAreOriginal(x, r) ==
    \A c \in 1..N_cohorts :
        IF notna(x.index_group[c])
        THEN /\ x.index_group[c][2] = 1
             /\ x.index_group[c][1] + 1 \in 1..Len(lst_info_df[c])
             /\ KeyOf(lst_info_df[c][x.index_group[c][1] + 1]) = KeyOf(r)
        ELSE KeyOf(r) \notin KeysIn(lst_info_df[c])

C9_FirstModeUsesCohort1 ==
    (Done /\ dict_flags.r2_output = "first")
    => \A j \in 1..Len(df_merged) :
         /\ SameFloat(df_merged[j].Rsq_combined, SourceRsq(df_merged[j], 1))
         /\ ~ Observed(df_merged[j], 1) => isna(df_merged[j].Rsq_combined)
         /\ {"MAF_combined", "ALT_Frq_combined"} \cap DOMAIN df_merged[j] = {}

C9_Witness ==
    /\ Done /\ dict_flags.r2_output = "first"
    /\ \E j, k \in 1..Len(df_merged) :
          /\ ~ Observed(df_merged[j], 1)
          /\ notna(SourceRsq(df_merged[j], 2))
          /\ isna(df_merged[j].Rsq_combined)
          /\ notna(SourceRsq(df_merged[k], 1))
          /\ notna(SourceRsq(df_merged[k], 2))
          /\ ~ SameFloat(SourceRsq(df_merged[k], 2), SourceRsq(df_merged[k], 1))

\* v with its missing cells replaced by 0
ZeroFilled(v) == [c \in DOMAIN v |-> IF isna(v[c]) THEN Frac(0, 1) ELSE v[c]]

\* C10: in weighted_average mode MAF_combined (and ALT_Frq_combined) of every
\* variant is the sum over all cohorts of maf_i * n_i, an absent maf_i counting
\* as 0, divided by n_1 + ... + n_N; it is never missing.
C10_WeightedMafOverAllCohorts ==
    (Done /\ dict_flags.r2_output = "weighted_average")
    => \A j \in 1..Len(df_merged) :
         LET r == df_merged[j]
             n == lst_number_of_individuals
             all == 1..N_cohorts
             maf == ZeroFilled([c \in all |-> SourceMAF(r, c)])
             alt == ZeroFilled([c \in all |-> SourceALT(r, c)])
         IN  /\ SameFloat(r.MAF_combined,
                           FDiv(WeightedSum(maf, n, all), Frac(SumOver(n, all), 1)))
             /\ SameFloat(r.ALT_Frq_combined,
                           FDiv(WeightedSum(alt, n, all), Frac(SumOver(n, all), 1)))
             /\ notna(r.MAF_combined) /\ notna(r.ALT_Frq_combined)

C10_Witness ==
    /\ Done /\ dict_flags.r2_output = "weighted_average"
    /\ \E j \in 1..Len(df_merged) :
          /\ Cardinality({c \in 1..N_cohorts : Observed(df_merged[j], c)}) = 1
          /\ \E c \in 1..N_cohorts :
                /\ notna(SourceMAF(df_merged[j], c))
                /\ ~ FEq(SourceMAF(df_merged[j], c), Frac(0, 1))
                /\ ~ SameFloat(df_merged[j].MAF_combined, SourceMAF(df_merged[j], c))
                /\ ~ SameFloat(df_merged[j].ALT_Frq_combined, df_merged[j].MAF_combined)

====
